---- MODULE Spec2Model ----
(***************************************************************************)
(* Model of the cut-list solver (src/src/lib/solver.rs): Cut, CrosscutStack,*)
(* RipStack, Board, the feasibility check, vending, generate and compute.  *)
(*                                                                         *)
(* Dimensions are f32 in the source; the model draws them from small       *)
(* integers, which f32 represents exactly, so sums and comparisons of      *)
(* dimensions are exact.  Scores are quotients and products of such        *)
(* numbers; the model keeps them as exact fractions [n, d].                *)
(* A "lane" of the specification is a RipStack of the source.              *)
(***************************************************************************)
EXTENDS Integers, Sequences, FiniteSets, TLC

----------------------------------------------------------------------------
(* Bounds of the model *)

MaxAttempts == 2
MaxResultCount == 2
MaxSpacing == 1
MaxCount == 2
MaxCuts == 3
MaxAccepts == 4

(* stand-in for f32::MAX: larger than every length of the model *)
F32_MAX == 1000000

----------------------------------------------------------------------------
(* Generic helpers *)

Max(a, b) == IF a >= b THEN a ELSE b

Min(a, b) == IF a <= b THEN a ELSE b

Abs(x) == IF x < 0 THEN 0 - x ELSE x

Range(s) == {s[i] : i \in 1..Len(s)}

(* the sequences that are a reordering of s *)
Permutations_of(s) ==
  LET n == Len(s)
      bij == {f \in [1..n -> 1..n] : \A i, j \in 1..n : f[i] = f[j] => i = j}
  IN {[i \in 1..n |-> s[f[i]]] : f \in bij}

(* the insertion step of a stable sort: index x goes after every index  *)
(* of p that is not strictly after it; before[i][j] is "element i       *)
(* compares less than element j"                                         *)
RECURSIVE InsertStable(_, _, _)
InsertStable(p, x, before) ==
  IF p = <<>> THEN <<x>>
  ELSE LET last == p[Len(p)] IN
       IF before[x][last]
       THEN Append(InsertStable(SubSeq(p, 1, Len(p) - 1), x, before), last)
       ELSE Append(p, x)

RECURSIVE StableOrder(_, _)
StableOrder(n, before) ==
  IF n = 0 THEN <<>> ELSE InsertStable(StableOrder(n - 1, before), n, before)

(* slice::sort_by / sort_by_key, which are stable: s ordered by the       *)
(* integer key of each element, ascending                                 *)
StableSortByKey(s, key) ==
  LET before == [i \in 1..Len(s) |-> [j \in 1..Len(s) |-> key[i] < key[j]]]
      order == StableOrder(Len(s), before)
  IN [k \in 1..Len(s) |-> s[order[k]]]

(* the same with an explicit "compares less" relation on positions *)
StableSortBy(s, before) ==
  LET order == StableOrder(Len(s), before)
  IN [k \in 1..Len(s) |-> s[order[k]]]

----------------------------------------------------------------------------
(* Cut *)

Cut_from(cut, outset) ==
  [length |-> cut.length + outset, width |-> cut.width + outset, id |-> cut.name]

Cut_area(cut) == cut.width * cut.length

----------------------------------------------------------------------------
(* CrosscutStack: a sequence of cuts *)

CrosscutStack_accept(stack, cut) == Append(stack, cut)

CrosscutStack_contains(stack, cut) == \E i \in 1..Len(stack) : stack[i] = cut

CrosscutStack_remove(stack, cut) == SelectSeq(stack, LAMBDA c : c # cut)

RECURSIVE CrosscutStack_length(_)
CrosscutStack_length(stack) ==
  IF stack = <<>> THEN 0 ELSE Head(stack).length + CrosscutStack_length(Tail(stack))

RECURSIVE CrosscutStack_width(_)
CrosscutStack_width(stack) ==
  IF stack = <<>> THEN 0 ELSE Max(Head(stack).width, CrosscutStack_width(Tail(stack)))

RECURSIVE CrosscutStack_used_area(_)
CrosscutStack_used_area(stack) ==
  IF stack = <<>> THEN 0
  ELSE Head(stack).width * Head(stack).length + CrosscutStack_used_area(Tail(stack))

----------------------------------------------------------------------------
(* RipStack (a lane): a sequence of CrosscutStacks *)

(* RipStack::best_stack_for_cut always answers None, written 0 *)
RipStack_best_stack_for_cut(stacks, cut) == 0

RipStack_accept(stacks, cut) ==
  LET best == RipStack_best_stack_for_cut(stacks, cut) IN
  IF best # 0
  THEN [stacks EXCEPT ![best] = CrosscutStack_accept(@, cut)]
  ELSE Append(stacks, CrosscutStack_accept(<<>>, cut))

(* RipStack::remove taking every cut out of the lane *)
RipStack_remove_Clear(stacks, cut) == [i \in 1..Len(stacks) |-> <<>>]

(* RipStack::remove taking the lane's first cut instead of the given one *)
RipStack_remove_Front(stacks, cut) ==
  IF stacks = <<>> THEN stacks ELSE [stacks EXCEPT ![1] = <<>>]

RipStack_remove(stacks, cut) ==
  LET holders == {i \in 1..Len(stacks) : CrosscutStack_contains(stacks[i], cut)} IN
  IF holders = {} THEN stacks
  ELSE LET first == CHOOSE i \in holders : \A j \in holders : i <= j
       IN [stacks EXCEPT ![first] = CrosscutStack_remove(@, cut)]

RECURSIVE RipStack_length(_)
RipStack_length(stacks) ==
  IF stacks = <<>> THEN 0
  ELSE Max(CrosscutStack_length(Head(stacks)), RipStack_length(Tail(stacks)))

RECURSIVE RipStack_width(_)
RipStack_width(stacks) ==
  IF stacks = <<>> THEN 0
  ELSE CrosscutStack_width(Head(stacks)) + RipStack_width(Tail(stacks))

RECURSIVE RipStack_used_area(_)
RipStack_used_area(stacks) ==
  IF stacks = <<>> THEN 0
  ELSE CrosscutStack_used_area(Head(stacks)) + RipStack_used_area(Tail(stacks))

RipStack_is_empty(stacks) == stacks = <<>>

(* Stack::score of a RipStack, as the fraction n/d *)
Stack_score(stacks) ==
  IF ~RipStack_is_empty(stacks)
  THEN LET area == RipStack_length(stacks) * RipStack_width(stacks) IN
       IF area > 0 THEN [n |-> RipStack_used_area(stacks), d |-> area]
       ELSE [n |-> 0, d |-> 1]
  ELSE [n |-> 0, d |-> 1]

(* the cuts of a lane, in order *)
RECURSIVE RipStack_cuts(_)
RipStack_cuts(stacks) ==
  IF stacks = <<>> THEN <<>> ELSE Head(stacks) \o RipStack_cuts(Tail(stacks))

----------------------------------------------------------------------------
(* Board *)

Board_from(board) ==
  [length |-> board.length, width |-> board.width, id |-> board.id, stacks |-> <<>>]

RECURSIVE SumRipStackLength(_)
SumRipStackLength(lanes) ==
  IF lanes = <<>> THEN 0 ELSE RipStack_length(Head(lanes)) + SumRipStackLength(Tail(lanes))

Board_allocated_length(b) == SumRipStackLength(b.stacks)

Board_unallocated_length(b) == b.length - Board_allocated_length(b)

(* BestStackLoop with <= for < in the lane-width test of line 175 *)
RECURSIVE BestStackLoop_Inclusive(_, _, _, _)
BestStackLoop_Inclusive(b, cut, i, acc) ==
  IF i > Len(b.stacks) THEN acc
  ELSE LET stack == b.stacks[i]
           length_difference == Abs(cut.length - RipStack_length(stack))
       IN IF RipStack_width(stack) + cut.width <= b.width
             /\ length_difference < acc.difference
          THEN BestStackLoop_Inclusive(b, cut, i + 1,
                                       [index |-> i, difference |-> length_difference])
          ELSE BestStackLoop_Inclusive(b, cut, i + 1, acc)

(* BestStackLoop without the lane-width test of line 175 *)
RECURSIVE BestStackLoop_AnyWidth(_, _, _, _)
BestStackLoop_AnyWidth(b, cut, i, acc) ==
  IF i > Len(b.stacks) THEN acc
  ELSE LET length_difference == Abs(cut.length - RipStack_length(b.stacks[i]))
       IN IF length_difference < acc.difference
          THEN BestStackLoop_AnyWidth(b, cut, i + 1,
                                      [index |-> i, difference |-> length_difference])
          ELSE BestStackLoop_AnyWidth(b, cut, i + 1, acc)

(* the loop of best_stack_for_cut over lanes i..Len: acc = [index, difference] *)
RECURSIVE BestStackLoop(_, _, _, _)
BestStackLoop(b, cut, i, acc) ==
  IF i > Len(b.stacks) THEN acc
  ELSE LET stack == b.stacks[i]
           length_difference == Abs(cut.length - RipStack_length(stack))
       IN IF RipStack_width(stack) + cut.width < b.width
             /\ length_difference < acc.difference
          THEN BestStackLoop(b, cut, i + 1, [index |-> i, difference |-> length_difference])
          ELSE BestStackLoop(b, cut, i + 1, acc)

(* best_stack_for_cut without the half-length cutoff of line 186 *)
Board_best_stack_for_cut_NoCutoff(b, cut) ==
  IF Board_unallocated_length(b) >= cut.length THEN 0
  ELSE BestStackLoop(b, cut, 1, [index |-> 0, difference |-> F32_MAX]).index

(* best_stack_for_cut without the free-length test of line 168 *)
Board_best_stack_for_cut_NoRoomTest(b, cut) ==
  LET best == BestStackLoop(b, cut, 1, [index |-> 0, difference |-> F32_MAX]) IN
  IF 2 * best.difference < cut.length THEN best.index ELSE 0

(* index of the lane to append to, 0 for None *)
Board_best_stack_for_cut(b, cut) ==
  IF Board_unallocated_length(b) >= cut.length THEN 0
  ELSE LET best == BestStackLoop(b, cut, 1, [index |-> 0, difference |-> F32_MAX]) IN
       IF 2 * best.difference < cut.length THEN best.index ELSE 0

Board_can_accept(b, cut) ==
  /\ b.width >= cut.width
  /\ b.length >= cut.length
  /\ (Board_best_stack_for_cut(b, cut) # 0 \/ Board_unallocated_length(b) >= cut.length)

(* accept that answers false on overflow but leaves the appended cut in place *)
Board_accept_NoRemove(b, cut) ==
  IF cut.length > b.length \/ cut.width > b.width
  THEN [board |-> b, ok |-> FALSE]
  ELSE LET best_stack_index == Board_best_stack_for_cut(b, cut) IN
       IF best_stack_index # 0
       THEN LET added == [b EXCEPT !.stacks[best_stack_index] = RipStack_accept(@, cut)] IN
            [board |-> added, ok |-> ~(Board_allocated_length(added) > b.length)]
       ELSE IF Board_unallocated_length(b) >= cut.length
            THEN [board |-> [b EXCEPT !.stacks = Append(@, RipStack_accept(<<>>, cut))],
                  ok |-> TRUE]
            ELSE [board |-> b, ok |-> FALSE]

(* accept without the overflow check of lines 132-135 *)
Board_accept_NoOverflowCheck(b, cut) ==
  IF cut.length > b.length \/ cut.width > b.width
  THEN [board |-> b, ok |-> FALSE]
  ELSE LET best_stack_index == Board_best_stack_for_cut(b, cut) IN
       IF best_stack_index # 0
       THEN [board |-> [b EXCEPT !.stacks[best_stack_index] = RipStack_accept(@, cut)],
             ok |-> TRUE]
       ELSE IF Board_unallocated_length(b) >= cut.length
            THEN [board |-> [b EXCEPT !.stacks = Append(@, RipStack_accept(<<>>, cut))],
                  ok |-> TRUE]
            ELSE [board |-> b, ok |-> FALSE]

(* accept: the board after the call and the value returned *)
Board_accept(b, cut) ==
  IF cut.length > b.length \/ cut.width > b.width
  THEN [board |-> b, ok |-> FALSE]
  ELSE LET best_stack_index == Board_best_stack_for_cut(b, cut) IN
       IF best_stack_index # 0
       THEN LET added == [b EXCEPT !.stacks[best_stack_index] = RipStack_accept(@, cut)] IN
            IF Board_allocated_length(added) > b.length
            THEN [board |-> [added EXCEPT !.stacks[best_stack_index] = RipStack_remove(@, cut)],
                  ok |-> FALSE]
            ELSE [board |-> added, ok |-> TRUE]
       ELSE IF Board_unallocated_length(b) >= cut.length
            THEN [board |-> [b EXCEPT !.stacks = Append(@, RipStack_accept(<<>>, cut))],
                  ok |-> TRUE]
            ELSE [board |-> b, ok |-> FALSE]

RECURSIVE ProductOfScores(_)
ProductOfScores(lanes) ==
  IF lanes = <<>> THEN [n |-> 1, d |-> 1]
  ELSE LET s == Stack_score(Head(lanes))
           r == ProductOfScores(Tail(lanes))
       IN [n |-> s.n * r.n, d |-> s.d * r.d]

(* Board::score; only called for boards with at least one lane *)
Board_score(b) == ProductOfScores(b.stacks)

----------------------------------------------------------------------------
(* Solver functions *)

(* is fraction a strictly less than fraction b (denominators positive) *)
ScoreLess(a, b) == a.n * b.d < b.n * a.d

RECURSIVE score(_)
score(boards) ==
  IF boards = <<>> THEN [n |-> 1, d |-> 1]
  ELSE LET rest == score(Tail(boards)) IN
       IF Head(boards).stacks # <<>>
       THEN LET s == Board_score(Head(boards)) IN [n |-> s.n * rest.n, d |-> s.d * rest.d]
       ELSE rest

(* the check comparing lengths as well as widths at line 354 *)
is_a_solution_possible_AlsoLength(model) ==
  ~ \E c \in 1..Len(model.cutlist) : \E b \in 1..Len(model.boards) :
        \/ model.cutlist[c].width > model.boards[b].width
        \/ model.cutlist[c].length + model.spacing > model.boards[b].length

(* the check comparing lengths where line 354 compares widths *)
is_a_solution_possible_ByLength(model) ==
  ~ \E c \in 1..Len(model.cutlist) : \E b \in 1..Len(model.boards) :
        model.cutlist[c].length > model.boards[b].length

is_a_solution_possible(model) ==
  ~ \E c \in 1..Len(model.cutlist) : \E b \in 1..Len(model.boards) :
        model.cutlist[c].width > model.boards[b].width

(* best_board_for_cut returning the last board whose can_accept holds *)
best_board_for_cut_Last(boards, cut) ==
  LET able == {i \in 1..Len(boards) : Board_can_accept(boards[i], cut)} IN
  IF able = {} THEN 0 ELSE CHOOSE i \in able : \A j \in able : i >= j

(* index of the first board whose can_accept holds, 0 for None *)
best_board_for_cut(boards, cut) ==
  LET able == {i \in 1..Len(boards) : Board_can_accept(boards[i], cut)} IN
  IF able = {} THEN 0 ELSE CHOOSE i \in able : \A j \in able : i <= j

(* the catalog as vend_new_board_for_cut sorts it: by width, stable *)
BoardModelsByWidth(model) ==
  StableSortByKey(model.boards, [i \in 1..Len(model.boards) |-> model.boards[i].width])

(* the test of line 394 with >= for > *)
VendQualifies_Inclusive(board_model, cut) ==
  board_model.width >= cut.width /\ board_model.length >= cut.length

VendQualifies(board_model, cut) ==
  board_model.width > cut.width /\ board_model.length > cut.length

vend_new_board_for_cut(model, cut) ==
  LET board_models == BoardModelsByWidth(model)
      fit == {i \in 1..Len(board_models) : VendQualifies(board_models[i], cut)}
  IN IF fit = {} THEN [some |-> FALSE]
     ELSE [some |-> TRUE,
           board |-> Board_from(board_models[CHOOSE i \in fit : \A j \in fit : i <= j])]

(* generate, lines 415-419: accept on each board from index i on, until one succeeds *)
RECURSIVE ScanBoards(_, _, _)
ScanBoards(boards, cut, i) ==
  IF i > Len(boards) THEN [boards |-> boards, placed |-> FALSE]
  ELSE LET r == Board_accept(boards[i], cut)
           after == [boards EXCEPT ![i] = r.board]
       IN IF r.ok THEN [boards |-> after, placed |-> TRUE]
          ELSE ScanBoards(after, cut, i + 1)

(* one iteration of the loop of generate for the popped cut:             *)
(* the boards afterwards, and failed = TRUE when generate returns None   *)
GenerateCut(model, boards, cut) ==
  LET board_index == best_board_for_cut(boards, cut)
      preferred == IF board_index # 0 THEN Board_accept(boards[board_index], cut)
                   ELSE [board |-> <<>>, ok |-> FALSE]
      boards1 == IF board_index # 0 THEN [boards EXCEPT ![board_index] = preferred.board]
                 ELSE boards
  IN IF preferred.ok THEN [boards |-> boards1, failed |-> FALSE]
     ELSE LET scan == ScanBoards(boards1, cut, 1) IN
          IF scan.placed THEN [boards |-> scan.boards, failed |-> FALSE]
          ELSE LET vended == vend_new_board_for_cut(model, cut) IN
               IF vended.some
               THEN LET r == Board_accept(vended.board, cut) IN
                    IF r.ok THEN [boards |-> Append(scan.boards, r.board), failed |-> FALSE]
                    ELSE [boards |-> scan.boards, failed |-> TRUE]
               ELSE [boards |-> scan.boards, failed |-> TRUE]

(* the expansion making one cut per entry, whatever its count *)
RECURSIVE ExpandCutlist_OnePerEntry(_, _)
ExpandCutlist_OnePerEntry(entries, spacing) ==
  IF entries = <<>> THEN <<>>
  ELSE <<Cut_from(Head(entries), spacing)>> \o ExpandCutlist_OnePerEntry(Tail(entries), spacing)

(* compute, lines 452-466: count cuts for every entry, inflated by spacing *)
RECURSIVE ExpandCutlist(_, _)
ExpandCutlist(entries, spacing) ==
  IF entries = <<>> THEN <<>>
  ELSE [k \in 1..Head(entries).count |-> Cut_from(Head(entries), spacing)]
       \o ExpandCutlist(Tail(entries), spacing)

(* compute, line 482: the cut list by ascending area *)
SortByArea(cutlist) ==
  StableSortByKey(cutlist, [i \in 1..Len(cutlist) |-> Cut_area(cutlist[i])])

(* ranking that orders every result by score before it truncates *)
RankResults_ByScoreFirst(results, requested) ==
  LET result_count == Min(requested, Len(results))
      before == [i \in 1..Len(results) |-> [j \in 1..Len(results) |->
                   ScoreLess(score(results[j]), score(results[i]))]]
  IN SubSeq(StableSortBy(results, before), 1, result_count)

(* ranking whose sort by board count puts later attempts first among ties *)
RankResults_LatestFirst(results, requested) ==
  LET result_count == Min(requested, Len(results))
      fewer == [i \in 1..Len(results) |-> [j \in 1..Len(results) |->
                  Len(results[i]) <= Len(results[j])]]
      kept == SubSeq(StableSortBy(results, fewer), 1, result_count)
      before == [i \in 1..Len(kept) |-> [j \in 1..Len(kept) |->
                   ScoreLess(score(kept[j]), score(kept[i]))]]
  IN StableSortBy(kept, before)

(* compute, lines 499-506 *)
RankResults(results, requested) ==
  LET result_count == Min(requested, Len(results))
      by_boards == StableSortByKey(results, [i \in 1..Len(results) |-> Len(results[i])])
      kept == SubSeq(by_boards, 1, result_count)
      before == [i \in 1..Len(kept) |-> [j \in 1..Len(kept) |->
                   ScoreLess(score(kept[j]), score(kept[i]))]]
  IN StableSortBy(kept, before)

----------------------------------------------------------------------------
(* Inputs: what model::Input::from hands to compute (validated: positive  *)
(* dimensions, counts >= 1, non-empty boards and cutlist)                 *)

BoardLengths == {3, 4}
BoardWidths == {2, 4}
CutLengths == {2, 3}
CutWidths == {1, 3}
CutNames == {"P", "Q"}

BoardModels(id) == [length : BoardLengths, width : BoardWidths, id : {id}]

Catalogs ==
  {<<a>> : a \in BoardModels("A")}
  \cup {<<a, b>> : a \in BoardModels("A"), b \in BoardModels("B")}

CutModels(names) == [length : CutLengths, width : CutWidths, count : 1..MaxCount, name : names]

(* the first entry is named "P", the second "Q" *)
Cutlists ==
  {<<c>> : c \in CutModels({"P"})}
  \cup {l \in {<<c, d>> : c \in CutModels({"P"}), d \in CutModels({"Q"})} :
          l[1].count + l[2].count <= MaxCuts}

GridInputs == [boards : Catalogs, cutlist : Cutlists, spacing : 0..MaxSpacing]

(* the worked examples of the specification's testable properties *)
ExampleInputs ==
  { [boards |-> <<[length |-> 96, width |-> 8, id |-> "A"]>>,
     cutlist |-> <<[length |-> 18, width |-> 3, count |-> 2, name |-> "Apron"]>>,
     spacing |-> 0],
    [boards |-> <<[length |-> 10, width |-> 4, id |-> "Small"],
                  [length |-> 100, width |-> 4, id |-> "Big"]>>,
     cutlist |-> <<[length |-> 50, width |-> 3, count |-> 1, name |-> "P"]>>,
     spacing |-> 0],
    [boards |-> <<[length |-> 96, width |-> 4, id |-> "A"]>>,
     cutlist |-> <<[length |-> 18, width |-> 5, count |-> 1, name |-> "P"]>>,
     spacing |-> 0],
    [boards |-> <<[length |-> 96, width |-> 4, id |-> "A"],
                  [length |-> 96, width |-> 8, id |-> "B"]>>,
     cutlist |-> <<[length |-> 18, width |-> 5, count |-> 1, name |-> "P"]>>,
     spacing |-> 0] }

(* a cut as wide as the only template and exactly as long as what the other *)
(* cut leaves of it *)
BoundaryInputs ==
  { [boards |-> <<[length |-> 10, width |-> 4, id |-> "A"]>>,
     cutlist |-> <<[length |-> 6, width |-> 2, count |-> 1, name |-> "P"],
                   [length |-> 4, width |-> 4, count |-> 1, name |-> "Q"]>>,
     spacing |-> 0] }

Inputs == GridInputs \cup ExampleInputs \cup BoundaryInputs

----------------------------------------------------------------------------
(* model.rs: the text formats of boards and cuts. A text is a sequence of  *)
(* tokens: a number literal, one of the separators "x", ":", "@", or the   *)
(* letter "A"                                                              *)

MaxEntries == 2

(* an f32: NaN, or the number v *)
F32(v) == [nan |-> FALSE, v |-> v]

NaN == [nan |-> TRUE, v |-> 0]

(* a <= b on f32: false when either side is NaN *)
F32_le(a, b) == ~a.nan /\ ~b.nan /\ a.v <= b.v

Ok(value) == [ok |-> TRUE, value |-> <<value>>]

Err == [ok |-> FALSE, value |-> <<>>]

(* str::parse::<f32>: a number literal, "NaN" included, and nothing else *)
parse_f32(text) ==
  IF text = <<"2">> \/ text = <<"2.0">> THEN Ok(F32(2))
  ELSE IF text = <<"1">> THEN Ok(F32(1))
  ELSE IF text = <<"0">> THEN Ok(F32(0))
  ELSE IF text = <<"-1">> THEN Ok(F32(0 - 1))
  ELSE IF text = <<"NaN">> THEN Ok(NaN)
  ELSE Err

(* str::parse::<i32>: an integer literal and nothing else *)
parse_i32(text) ==
  IF text = <<"2">> THEN Ok(2)
  ELSE IF text = <<"1">> THEN Ok(1)
  ELSE IF text = <<"0">> THEN Ok(0)
  ELSE IF text = <<"-1">> THEN Ok(0 - 1)
  ELSE Err

(* str::split_once: the text before and after the first separator *)
split_once(text, separator) ==
  LET at == {i \in 1..Len(text) : text[i] = separator} IN
  IF at = {} THEN [some |-> FALSE, before |-> <<>>, after |-> <<>>]
  ELSE LET i == CHOOSE k \in at : \A j \in at : k <= j
       IN [some |-> TRUE, before |-> SubSeq(text, 1, i - 1),
           after |-> SubSeq(text, i + 1, Len(text))]

(* Board::parse, lines 24-43 *)
Board_parse(spec) ==
  LET first == split_once(spec, "x") IN
  IF ~first.some THEN Err
  ELSE LET length == parse_f32(first.before) IN
       IF ~length.ok THEN Err
       ELSE LET second == split_once(first.after, ":") IN
            IF ~second.some THEN Err
            ELSE LET width == parse_f32(second.before)
                     id == second.after
                 IN IF ~width.ok THEN Err
                    ELSE IF F32_le(length.value[1], F32(0)) THEN Err
                    ELSE IF F32_le(width.value[1], F32(0)) THEN Err
                    ELSE IF id = <<>> THEN Err
                    ELSE Ok([length |-> length.value[1], width |-> width.value[1],
                             id |-> id])

(* Cut::parse, lines 70-100 *)
Cut_parse(spec) ==
  LET first == split_once(spec, "@") IN
  IF ~first.some THEN Err
  ELSE LET count == parse_i32(first.before) IN
       IF ~count.ok THEN Err
       ELSE IF count.value[1] < 1 THEN Err
       ELSE LET second == split_once(first.after, "x") IN
            IF ~second.some THEN Err
            ELSE LET length == parse_f32(second.before) IN
                 IF ~length.ok THEN Err
                 ELSE IF F32_le(length.value[1], F32(0)) THEN Err
                 ELSE LET third == split_once(second.after, ":") IN
                      IF ~third.some THEN Err
                      ELSE LET width == parse_f32(third.before) IN
                           IF ~width.ok THEN Err
                           ELSE IF F32_le(width.value[1], F32(0)) THEN Err
                           ELSE Ok([length |-> length.value[1],
                                    width |-> width.value[1],
                                    count |-> count.value[1],
                                    name |-> third.after])

(* the loop of Input::boards, lines 129-135: entries that are not strings *)
(* are skipped, the first text that does not parse ends it                *)
RECURSIVE ParseBoards(_, _)
ParseBoards(items, acc) ==
  IF items = <<>> THEN Ok(acc)
  ELSE IF Head(items).kind = "String"
       THEN LET r == Board_parse(Head(items).text) IN
            IF ~r.ok THEN Err ELSE ParseBoards(Tail(items), Append(acc, r.value[1]))
       ELSE ParseBoards(Tail(items), acc)

(* the loop of Input::cutlist, lines 147-153 *)
RECURSIVE ParseCuts(_, _)
ParseCuts(items, acc) ==
  IF items = <<>> THEN Ok(acc)
  ELSE IF Head(items).kind = "String"
       THEN LET r == Cut_parse(Head(items).text) IN
            IF ~r.ok THEN Err ELSE ParseCuts(Tail(items), Append(acc, r.value[1]))
       ELSE ParseCuts(Tail(items), acc)

(* Input::margin, lines 118-124 *)
Input_margin(doc) ==
  IF doc.margin.kind = "Real" THEN Ok(F32(doc.margin.v)) ELSE Ok(F32(0))

(* Input::boards, lines 127-142 *)
Input_boards(doc) ==
  LET r == IF doc.boards.kind = "Array" THEN ParseBoards(doc.boards.items, <<>>)
           ELSE Ok(<<>>)
  IN IF ~r.ok THEN Err
     ELSE IF r.value[1] # <<>> THEN r ELSE Err

(* Input::cutlist, lines 144-160 *)
Input_cutlist(doc) ==
  LET r == IF doc.cutlist.kind = "Array" THEN ParseCuts(doc.cutlist.items, <<>>)
           ELSE Ok(<<>>)
  IN IF ~r.ok THEN Err
     ELSE IF r.value[1] # <<>> THEN r ELSE Err

(* Input::from, lines 110-117 *)
Input_from(doc) ==
  LET margin == Input_margin(doc) IN
  IF ~margin.ok THEN Err
  ELSE LET parsed_boards == Input_boards(doc) IN
       IF ~parsed_boards.ok THEN Err
       ELSE LET parsed_cutlist == Input_cutlist(doc) IN
            IF ~parsed_cutlist.ok THEN Err
            ELSE Ok([margin |-> margin.value[1], boards |-> parsed_boards.value[1],
                     cutlist |-> parsed_cutlist.value[1]])

(* the texts offered to the parsers: each field a number literal, a word *)
(* or nothing, each separator present or not                             *)
NumberTexts == {<<>>, <<"1">>, <<"0">>, <<"-1">>, <<"2.0">>, <<"NaN">>, <<"A">>}

NameTexts == {<<>>, <<"A">>, <<"A", ":", "A">>}

Separator(present, s) == IF present THEN <<s>> ELSE <<>>

BoardSpecs ==
  [length : NumberTexts, x : BOOLEAN, width : NumberTexts, colon : BOOLEAN,
   id : NameTexts]

BoardText(spec) ==
  spec.length \o Separator(spec.x, "x") \o spec.width \o Separator(spec.colon, ":")
  \o spec.id

CutSpecs ==
  [count : NumberTexts, at : BOOLEAN, length : NumberTexts, x : BOOLEAN,
   width : NumberTexts, colon : BOOLEAN, name : NameTexts]

CutText(spec) ==
  spec.count \o Separator(spec.at, "@") \o spec.length \o Separator(spec.x, "x")
  \o spec.width \o Separator(spec.colon, ":") \o spec.name

(* the YAML documents offered to Input::from *)
SeqsUpTo(S, n) == UNION {[1..k -> S] : k \in 0..n}

YamlInteger == [kind |-> "Integer", text |-> <<>>]

YamlString(text) == [kind |-> "String", text |-> text]

BoardItems ==
  {YamlInteger, YamlString(<<"2", "x", "1", ":", "A">>),
   YamlString(<<"0", "x", "1", ":", "A">>), YamlString(<<"NaN", "x", "1", ":", "A">>)}

CutItems ==
  {YamlInteger, YamlString(<<"1", "@", "2", "x", "1", ":", "A">>),
   YamlString(<<"0", "@", "2", "x", "1", ":", "A">>),
   YamlString(<<"1", "@", "2", "x", "NaN", ":", "A">>)}

YamlLists(items) ==
  {[kind |-> "Null", items |-> <<>>]}
  \cup {[kind |-> "Array", items |-> l] : l \in SeqsUpTo(items, MaxEntries)}

Docs ==
  [margin : {[kind |-> "Null", v |-> 0], [kind |-> "Real", v |-> 1]},
   boards : YamlLists(BoardItems), cutlist : YamlLists(CutItems)]

----------------------------------------------------------------------------
(* State *)

VARIABLES
  model,        \* compute's argument: boards, cutlist, spacing
  attempts,     \* compute's argument
  result_count, \* compute's argument, drawn where line 499 first reads it
  pc,           \* position in compute: "start", "loop", "generate", "done"
  cutlist,      \* compute's local cutlist, in its current order
  attempt,      \* number of generate calls made so far
  failures,     \* number of generate calls that returned None
  results,      \* compute's local results
  gen_cutlist,  \* generate's local cutlist (cuts still to place)
  boards,       \* generate's local boards
  ret,          \* what compute returned
  board,        \* a single Board driven by accept calls (SpecBoard)
  call,         \* the last accept call on board: the board before, the cut, the answer
  parsed        \* the one call made of a parser (SpecParse): function, argument, result

computeVars == <<model, attempts, result_count, pc, cutlist, attempt, failures,
                 results, gen_cutlist, boards, ret>>

boardVars == <<board, call>>

parseVars == <<parsed>>

vars == <<model, attempts, result_count, pc, cutlist, attempt, failures,
          results, gen_cutlist, boards, ret, board, call, parsed>>

Pending == [kind |-> "pending", solutions |-> <<>>]

None == [kind |-> "None", solutions |-> <<>>]

Some(solutions) == [kind |-> "Some", solutions |-> solutions]

NoBoard == [length |-> 0, width |-> 0, id |-> "", stacks |-> <<>>]

NoCall == [n |-> 0, before |-> NoBoard, cut |-> [length |-> 0, width |-> 0, id |-> ""],
           ok |-> FALSE]

NoParse == [fn |-> "", arg |-> <<>>, result |-> Err]

Init ==
  /\ model \in Inputs
  /\ attempts \in 0..MaxAttempts
  /\ result_count = 0
  /\ pc = "start"
  /\ cutlist = <<>>
  /\ attempt = 0
  /\ failures = 0
  /\ results = <<>>
  /\ gen_cutlist = <<>>
  /\ boards = <<>>
  /\ ret = Pending
  /\ board = NoBoard
  /\ call = NoCall
  /\ parsed = NoParse

(* compute, lines 447-449: the feasibility check fails *)
Infeasible ==
  /\ pc = "start"
  /\ ~is_a_solution_possible(model)
  /\ pc' = "done"
  /\ ret' = None
  /\ UNCHANGED <<model, attempts, result_count, cutlist, attempt, failures, results,
                 gen_cutlist, boards>>
  /\ UNCHANGED <<boardVars, parseVars>>

(* compute, lines 452-479: the check passes, the cut list is expanded *)
Expand ==
  /\ pc = "start"
  /\ is_a_solution_possible(model)
  /\ cutlist' = ExpandCutlist(model.cutlist, model.spacing)
  /\ results' = <<>>
  /\ pc' = "loop"
  /\ UNCHANGED <<model, attempts, result_count, attempt, failures, gen_cutlist,
                 boards, ret>>
  /\ UNCHANGED <<boardVars, parseVars>>

(* compute, lines 481-483: attempts = 0, one generate on the list sorted by area *)
SortedAttempt ==
  /\ pc = "loop"
  /\ attempts = 0
  /\ attempt = 0
  /\ cutlist' = SortByArea(cutlist)
  /\ gen_cutlist' = cutlist'
  /\ boards' = <<>>
  /\ pc' = "generate"
  /\ UNCHANGED <<model, attempts, result_count, attempt, failures, results, ret>>
  /\ UNCHANGED <<boardVars, parseVars>>

(* compute, lines 490-492: shuffle, then generate *)
ShuffledAttempt ==
  /\ pc = "loop"
  /\ attempts > 0
  /\ attempt < attempts
  /\ \E shuffled \in Permutations_of(cutlist) : cutlist' = shuffled
  /\ gen_cutlist' = cutlist'
  /\ boards' = <<>>
  /\ pc' = "generate"
  /\ UNCHANGED <<model, attempts, result_count, attempt, failures, results, ret>>
  /\ UNCHANGED <<boardVars, parseVars>>

(* generate, lines 406-436: one iteration of the loop *)
GenerateStep ==
  /\ pc = "generate"
  /\ gen_cutlist # <<>>
  /\ LET cut == gen_cutlist[Len(gen_cutlist)]
         r == GenerateCut(model, boards, cut)
     IN /\ gen_cutlist' = SubSeq(gen_cutlist, 1, Len(gen_cutlist) - 1)
        /\ boards' = r.boards
        /\ IF r.failed
           THEN /\ pc' = "loop"
                /\ attempt' = attempt + 1
                /\ failures' = failures + 1
           ELSE /\ pc' = "generate"
                /\ UNCHANGED <<attempt, failures>>
  /\ UNCHANGED <<model, attempts, result_count, cutlist, results, ret>>
  /\ UNCHANGED <<boardVars, parseVars>>

(* generate, line 438, and compute, lines 483-485 and 492-494 *)
GenerateReturn ==
  /\ pc = "generate"
  /\ gen_cutlist = <<>>
  /\ results' = Append(results, boards)
  /\ attempt' = attempt + 1
  /\ pc' = "loop"
  /\ UNCHANGED <<model, attempts, result_count, cutlist, failures, gen_cutlist,
                 boards, ret>>
  /\ UNCHANGED <<boardVars, parseVars>>

(* the loop of lines 487-495 left at the first failed attempt *)
LoopDone_StopAtFailure ==
  /\ pc = "loop"
  /\ \/ failures > 0
     \/ IF attempts = 0 THEN attempt = 1 ELSE attempt = attempts

(* the attempts are over: one generate call for attempts = 0, else attempts calls *)
LoopDone ==
  /\ pc = "loop"
  /\ IF attempts = 0 THEN attempt = 1 ELSE attempt = attempts

(* compute, lines 498-508: some attempt succeeded *)
ReturnRanked ==
  /\ LoopDone
  /\ results # <<>>
  /\ \E requested \in 0..MaxResultCount :
       /\ result_count' = requested
       /\ ret' = Some(RankResults(results, requested))
  /\ pc' = "done"
  /\ UNCHANGED <<model, attempts, cutlist, attempt, failures, results,
                 gen_cutlist, boards>>
  /\ UNCHANGED <<boardVars, parseVars>>

(* compute, lines 509-511: no attempt succeeded *)
ReturnNone ==
  /\ LoopDone
  /\ results = <<>>
  /\ ret' = None
  /\ pc' = "done"
  /\ UNCHANGED <<model, attempts, result_count, cutlist, attempt, failures, results,
                 gen_cutlist, boards>>
  /\ UNCHANGED <<boardVars, parseVars>>

Next ==
  \/ Infeasible
  \/ Expand
  \/ SortedAttempt
  \/ ShuffledAttempt
  \/ GenerateStep
  \/ GenerateReturn
  \/ ReturnRanked
  \/ ReturnNone

Spec == Init /\ [][Next]_vars

----------------------------------------------------------------------------
(* A single board under any sequence of accept calls: as in generate, the *)
(* board is vended for its first cut (lines 422-424) and then offered any  *)
(* further cut (lines 409 and 416)                                         *)

(* the cuts Cut::from can make of the grid's cut models *)
BoardCuts ==
  {Cut_from(c, s) : c \in CutModels(CutNames), s \in 0..MaxSpacing}

InitBoard ==
  /\ model = [boards |-> <<>>, cutlist |-> <<>>, spacing |-> 0]
  /\ attempts = 0
  /\ result_count = 0
  /\ pc = "board"
  /\ cutlist = <<>>
  /\ attempt = 0
  /\ failures = 0
  /\ results = <<>>
  /\ gen_cutlist = <<>>
  /\ boards = <<>>
  /\ ret = Pending
  /\ parsed = NoParse
  /\ \E board_model \in BoardModels("A"), cut \in BoardCuts :
       /\ VendQualifies(board_model, cut)
       /\ board = Board_accept(Board_from(board_model), cut).board
       /\ call = [n |-> 1, before |-> Board_from(board_model), cut |-> cut,
                  ok |-> Board_accept(Board_from(board_model), cut).ok]

(* Board::accept, lines 124-149, called with any cut *)
Accept ==
  /\ pc = "board"
  /\ call.n < MaxAccepts
  /\ \E cut \in BoardCuts :
       LET r == Board_accept(board, cut) IN
       /\ board' = r.board
       /\ call' = [n |-> call.n + 1, before |-> board, cut |-> cut, ok |-> r.ok]
  /\ UNCHANGED <<computeVars, parseVars>>

NextBoard == Accept

SpecBoard == InitBoard /\ [][NextBoard]_vars

----------------------------------------------------------------------------
(* The parsers of model.rs, each called once on any of the texts or documents *)

InitParse ==
  /\ model = [boards |-> <<>>, cutlist |-> <<>>, spacing |-> 0]
  /\ attempts = 0
  /\ result_count = 0
  /\ pc = "parse"
  /\ cutlist = <<>>
  /\ attempt = 0
  /\ failures = 0
  /\ results = <<>>
  /\ gen_cutlist = <<>>
  /\ boards = <<>>
  /\ ret = Pending
  /\ board = NoBoard
  /\ call = NoCall
  /\ parsed = NoParse

(* Board::parse, lines 24-43 *)
BoardParse ==
  /\ pc = "parse"
  /\ parsed.fn = ""
  /\ \E spec \in BoardSpecs :
       parsed' = [fn |-> "Board::parse", arg |-> spec,
                  result |-> Board_parse(BoardText(spec))]
  /\ UNCHANGED <<computeVars, boardVars>>

(* Cut::parse, lines 70-100 *)
CutParse ==
  /\ pc = "parse"
  /\ parsed.fn = ""
  /\ \E spec \in CutSpecs :
       parsed' = [fn |-> "Cut::parse", arg |-> spec,
                  result |-> Cut_parse(CutText(spec))]
  /\ UNCHANGED <<computeVars, boardVars>>

(* Input::from, lines 110-117 *)
InputFrom ==
  /\ pc = "parse"
  /\ parsed.fn = ""
  /\ \E doc \in Docs :
       parsed' = [fn |-> "Input::from", arg |-> doc, result |-> Input_from(doc)]
  /\ UNCHANGED <<computeVars, boardVars>>

NextParse ==
  \/ BoardParse
  \/ CutParse
  \/ InputFrom

SpecParse == InitParse /\ [][NextParse]_vars

----------------------------------------------------------------------------
(* Properties *)

Count(s, x) == Cardinality({i \in 1..Len(s) : s[i] = x})

(* s holds no element more often than t does *)
SubBag(s, t) == \A x \in Range(s) : Count(s, x) <= Count(t, x)

RECURSIVE BoardCutsOf(_)
BoardCutsOf(lanes) ==
  IF lanes = <<>> THEN <<>> ELSE RipStack_cuts(Head(lanes)) \o BoardCutsOf(Tail(lanes))

(* every cut held in a list of boards *)
RECURSIVE SolutionCuts(_)
SolutionCuts(solution) ==
  IF solution = <<>> THEN <<>>
  ELSE BoardCutsOf(Head(solution).stacks) \o SolutionCuts(Tail(solution))

Returned == ret.kind = "Some"

(* a lane that went through an overflow rollback keeps an emptied CrosscutStack *)
RolledBack(b) ==
  \E i \in 1..Len(b.stacks) : \E k \in 1..Len(b.stacks[i]) : b.stacks[i][k] = <<>>

(* the cut a cutlist entry asks for: its dimensions plus the spacing, its name *)
RequiredCut(entry) ==
  [length |-> entry.length + model.spacing, width |-> entry.width + model.spacing,
   id |-> entry.name]

RequiredCuts == {RequiredCut(model.cutlist[e]) : e \in 1..Len(model.cutlist)}

(* how many cuts equal to x the entries ask for *)
RECURSIVE UnitsRequired(_, _)
UnitsRequired(entries, x) ==
  IF entries = <<>> THEN 0
  ELSE (IF RequiredCut(Head(entries)) = x THEN Head(entries).count ELSE 0)
       + UnitsRequired(Tail(entries), x)

(* C1: every solution compute returns holds exactly the expanded cut list: *)
(* one cut per unit of count of every cutlist entry, with length + spacing, *)
(* width + spacing and the entry's name, none lost, duplicated or replaced *)
C1_CutConservation ==
  Returned =>
    \A i \in 1..Len(ret.solutions) :
      \A x \in Range(SolutionCuts(ret.solutions[i])) \cup RequiredCuts :
        Count(SolutionCuts(ret.solutions[i]), x) = UnitsRequired(model.cutlist, x)

(* a returned solution one of whose boards rolled an overflowing cut back, *)
(* the cut then being placed on a board vended for it                      *)
C1_Witness ==
  /\ Returned
  /\ \E i \in 1..Len(ret.solutions) :
       /\ Len(ret.solutions[i]) >= 2
       /\ \E k \in 1..Len(ret.solutions[i]) : RolledBack(ret.solutions[i][k])

(* C2: after any sequence of accept calls the lane lengths of the board add *)
(* up to at most the board's length *)
C2_LengthContainment ==
  call.n > 0 => Board_allocated_length(board) <= board.length

(* an accepted cut, longer than every member, was appended to an existing lane *)
C2_Witness ==
  /\ call.n > 0
  /\ call.ok
  /\ Len(board.stacks) = Len(call.before.stacks)
  /\ \E i \in 1..Len(board.stacks) :
       /\ board.stacks[i] # call.before.stacks[i]
       /\ RipStack_length(call.before.stacks[i]) < call.cut.length

(* C3: after any sequence of accept calls every lane of the board is at most *)
(* as wide as the board *)
C3_WidthContainment ==
  call.n > 0 =>
    \A i \in 1..Len(board.stacks) : RipStack_width(board.stacks[i]) <= board.width

(* an accepted cut joined a lane that already held a cut *)
C3_Witness ==
  /\ call.n > 0
  /\ call.ok
  /\ \E i \in 1..Len(board.stacks) :
       /\ Len(RipStack_cuts(board.stacks[i])) >= 2
       /\ board.stacks[i] # call.before.stacks[i]

(* the returned list is in non-increasing order of score *)
ScoreDescending(solutions) ==
  \A i, j \in 1..Len(solutions) :
    i < j => ~ScoreLess(score(solutions[i]), score(solutions[j]))

(* the successes compute left out of what it returned *)
Omitted == {x \in Range(results) : Count(results, x) > Count(ret.solutions, x)}

(* C4 as claimed: the returned list is the first min(result_count, successes) *)
(* of all successes in score-descending order, so no omitted success scores  *)
(* strictly higher than a returned one *)
C4_TopNByScore ==
  Returned =>
    /\ Len(ret.solutions) = Min(result_count, Len(results))
    /\ SubBag(ret.solutions, results)
    /\ ScoreDescending(ret.solutions)
    /\ \A x \in Omitted : \A y \in Range(ret.solutions) :
         ~ScoreLess(score(y), score(x))

(* C4 amended: compute returns min(result_count, successes) of the successes *)
(* in score-descending order; result_count >= successes returns them all;   *)
(* fewer returns the successes with the fewest boards, so no omitted success *)
(* has strictly fewer boards than a returned one *)
C4_TopNOfFewestBoards ==
  Returned =>
    /\ Len(ret.solutions) = Min(result_count, Len(results))
    /\ SubBag(ret.solutions, results)
    /\ ScoreDescending(ret.solutions)
    /\ \A x \in Omitted : \A y \in Range(ret.solutions) : Len(x) >= Len(y)

(* fewer solutions returned than succeeded, and an omitted one has more boards *)
(* and a strictly higher score than a returned one *)
C4_Witness ==
  /\ Returned
  /\ ret.solutions # <<>>
  /\ \E x \in Omitted : \E y \in Range(ret.solutions) :
       Len(x) > Len(y) /\ ScoreLess(score(y), score(x))

(* C5 as claimed: compute returns None or a non-empty list of solutions, *)
(* whatever result_count is *)
C5_NoneOrNonEmpty ==
  Returned => ret.solutions # <<>>

(* every cutlist entry is at most as wide as some board template *)
EveryCutHasAWideEnoughTemplate ==
  \A c \in 1..Len(model.cutlist) : \E b \in 1..Len(model.boards) :
    model.boards[b].width >= model.cutlist[c].width

(* compute went past the feasibility check: it expanded the cut list *)
CheckPassed == cutlist # <<>>

(* C6 as claimed: the feasibility check passes exactly when every required *)
(* cut is at most as wide as at least one board template *)
C6_FeasibleIffSomeTemplateWideEnough ==
  pc \in {"loop", "generate", "done"} =>
    (CheckPassed <=> EveryCutHasAWideEnoughTemplate)

SomeCutWiderThanEveryTemplate ==
  \E c \in 1..Len(model.cutlist) : \A b \in 1..Len(model.boards) :
    model.cutlist[c].width > model.boards[b].width

(* C7: when some required cut is wider than every template, compute returns   *)
(* None and generate is never run: no cut list expanded or shuffled, no board *)
(* vended, whatever attempts is *)
C7_InfeasibilityShortCircuit ==
  (pc \in {"start", "loop", "generate", "done"} /\ SomeCutWiderThanEveryTemplate) =>
    /\ pc \in {"start", "done"}
    /\ pc = "done" => ret = None
    /\ attempt = 0
    /\ cutlist = <<>>
    /\ gen_cutlist = <<>>
    /\ boards = <<>>
    /\ results = <<>>

(* compute has returned on the template (96, 4, A) with a cut of width 5 *)
C7_Witness ==
  /\ SomeCutWiderThanEveryTemplate
  /\ pc = "done"
  /\ attempts >= 1
  /\ model.boards = <<[length |-> 96, width |-> 4, id |-> "A"]>>
  /\ model.cutlist[1].width = 5

(* the last accept call on board: the lanes the cut could join by width, *)
(* and how far each lane's length is from the cut's *)
CallFits == call.cut.length <= call.before.length /\ call.cut.width <= call.before.width

CallEligible ==
  {i \in 1..Len(call.before.stacks) :
     RipStack_width(call.before.stacks[i]) + call.cut.width < call.before.width}

CallDifference(i) == Abs(call.cut.length - RipStack_length(call.before.stacks[i]))

CallClosest == {i \in CallEligible : \A j \in CallEligible : CallDifference(i) <= CallDifference(j)}

CallRoom == call.before.length - SumRipStackLength(call.before.stacks) >= call.cut.length

AppendedTo(i) == board = [call.before EXCEPT !.stacks[i] = Append(@, <<call.cut>>)]

InNewLane == board = [call.before EXCEPT !.stacks = Append(@, <<<<call.cut>>>>)]

SameCutsAsBefore ==
  /\ Len(board.stacks) = Len(call.before.stacks)
  /\ \A i \in 1..Len(board.stacks) :
       RipStack_cuts(board.stacks[i]) = RipStack_cuts(call.before.stacks[i])

(* C8 as claimed: for a cut that fits the board, if some existing lane has   *)
(* lane.width + cut.width < board.width, accept appends the cut to the       *)
(* eligible lane closest in length and returns true; a new lane is created   *)
(* only when no lane is eligible *)
C8_LaneSelectionRule ==
  (call.n > 0 /\ CallFits) =>
    /\ CallEligible # {} => (call.ok /\ \E i \in CallClosest : AppendedTo(i))
    /\ Len(board.stacks) > Len(call.before.stacks) => CallEligible = {}

(* C8 amended: for a cut that fits the board, accept opens a new lane and    *)
(* returns true whenever the unallocated length is >= the cut's length;      *)
(* otherwise, when the lowest-index eligible lane closest in length differs  *)
(* from the cut by less than half the cut's length, it appends the cut there *)
(* and returns true unless the lane lengths then exceed the board's length,  *)
(* in which case the cut is taken out again and it returns false; in every   *)
(* other case it returns false and places nothing *)
C8_LaneSelectionWhenOutOfRoom ==
  (call.n > 0 /\ CallFits) =>
    IF CallRoom THEN call.ok /\ InNewLane
    ELSE IF CallEligible # {} /\ \A i \in CallClosest : 2 * CallDifference(i) < call.cut.length
         THEN LET i == CHOOSE k \in CallClosest : \A j \in CallClosest : k <= j
                  grown == Max(RipStack_length(call.before.stacks[i]), call.cut.length)
                           - RipStack_length(call.before.stacks[i])
              IN IF SumRipStackLength(call.before.stacks) + grown <= call.before.length
                 THEN call.ok /\ AppendedTo(i)
                 ELSE ~call.ok /\ SameCutsAsBefore
         ELSE ~call.ok /\ board = call.before

(* with no room for a new lane, the cut joined one of several eligible lanes *)
C8_Witness ==
  /\ call.n > 0
  /\ CallFits
  /\ ~CallRoom
  /\ call.ok
  /\ Cardinality(CallEligible) >= 2
  /\ \E i \in CallClosest : AppendedTo(i)

Apron == [length |-> 18, width |-> 3, id |-> "Apron"]

ApronExample ==
  /\ model.boards = <<[length |-> 96, width |-> 8, id |-> "A"]>>
  /\ model.cutlist = <<[length |-> 18, width |-> 3, count |-> 2, name |-> "Apron"]>>
  /\ model.spacing = 0
  /\ attempts >= 1

(* C9 as claimed: on the template (96, 8, A) with two 18 x 3 cuts every    *)
(* returned solution is one board A with one lane that holds both cuts *)
C9_OneLaneWithBothCuts ==
  (ApronExample /\ Returned) =>
    \A s \in 1..Len(ret.solutions) :
      LET solution == ret.solutions[s] IN
      /\ Len(solution) = 1
      /\ solution[1].id = "A"
      /\ Len(solution[1].stacks) = 1
      /\ RipStack_cuts(solution[1].stacks[1]) = <<Apron, Apron>>

(* C9 amended: on that input every returned solution is one board A with *)
(* two lanes, each holding one of the two cuts *)
C9_TwoLanesOfOneCut ==
  (ApronExample /\ Returned) =>
    \A s \in 1..Len(ret.solutions) :
      LET solution == ret.solutions[s] IN
      /\ Len(solution) = 1
      /\ solution[1].id = "A"
      /\ Len(solution[1].stacks) = 2
      /\ RipStack_cuts(solution[1].stacks[1]) = <<Apron>>
      /\ RipStack_cuts(solution[1].stacks[2]) = <<Apron>>

(* compute returned at least one solution for the example *)
C9_Witness == ApronExample /\ Returned /\ ret.solutions # <<>>

(* the templates that qualify for the cut generate is about to place *)
NextCut == gen_cutlist[Len(gen_cutlist)]

Qualifying ==
  {k \in 1..Len(model.boards) :
     model.boards[k].width > NextCut.width /\ model.boards[k].length > NextCut.length}

(* k comes first among the qualifying templates by ascending width, *)
(* catalog order among equal widths *)
FirstQualifying(k) ==
  /\ k \in Qualifying
  /\ \A j \in Qualifying :
       \/ model.boards[k].width < model.boards[j].width
       \/ model.boards[k].width = model.boards[j].width /\ k <= j

SmallBigExample ==
  /\ model.boards = <<[length |-> 10, width |-> 4, id |-> "Small"],
                      [length |-> 100, width |-> 4, id |-> "Big"]>>
  /\ model.cutlist = <<[length |-> 50, width |-> 3, count |-> 1, name |-> "P"]>>

(* C10: a board generate vends for a cut is built from the first template, *)
(* in ascending-width order of the catalog, that is strictly wider and      *)
(* strictly longer than the cut; none is vended, and the attempt fails only,*)
(* when no template qualifies; for (10,4,Small),(100,4,Big) and a 50 x 3    *)
(* cut the board vended is Big *)
C10_VendingRule ==
  [][(pc = "generate" /\ gen_cutlist # <<>>) =>
       /\ Len(boards') = Len(boards) + 1 =>
            \E k \in 1..Len(model.boards) :
              /\ FirstQualifying(k)
              /\ boards'[Len(boards')].length = model.boards[k].length
              /\ boards'[Len(boards')].width = model.boards[k].width
              /\ boards'[Len(boards')].id = model.boards[k].id
       /\ Qualifying = {} => Len(boards') = Len(boards)
       /\ failures' = failures + 1 => Qualifying = {}
       /\ (SmallBigExample /\ Len(boards') = Len(boards) + 1) =>
            boards'[Len(boards')].id = "Big"]_vars

(* generate has vended a board for the 50 x 3 cut of the example *)
C10_Witness ==
  /\ SmallBigExample
  /\ pc = "generate"
  /\ Len(boards) = 1
  /\ boards[1].id = "Big"
  /\ SolutionCuts(boards) = <<[length |-> 50, width |-> 3, id |-> "P"]>>

(* C11 as claimed: whenever can_accept is true of a board and a cut, accept *)
(* on that board returns true and places the cut *)
C11_PreCheckSoundness ==
  (call.n > 0 /\ Board_can_accept(call.before, call.cut)) =>
    /\ call.ok
    /\ Len(BoardCutsOf(board.stacks)) = Len(BoardCutsOf(call.before.stacks)) + 1

(* one iteration of generate's loop, seen from outside: the cut went to the *)
(* existing board i, joined lane k of it, opened a lane on it, or a board   *)
(* was vended for it *)
PlacedOnBoard(i) ==
  /\ Len(boards') = Len(boards)
  /\ Len(BoardCutsOf(boards'[i].stacks)) = Len(BoardCutsOf(boards[i].stacks)) + 1

JoinedLane(i, k) ==
  /\ PlacedOnBoard(i)
  /\ Len(boards'[i].stacks) = Len(boards[i].stacks)
  /\ RipStack_cuts(boards'[i].stacks[k]) = Append(RipStack_cuts(boards[i].stacks[k]), NextCut)

OpenedLane(i) ==
  /\ PlacedOnBoard(i)
  /\ Len(boards'[i].stacks) = Len(boards[i].stacks) + 1

Vended == Len(boards') = Len(boards) + 1

Remaining(b) == b.length - SumRipStackLength(b.stacks)

(* C12 as claimed: no cut is placed on a board whose width equals the cut's, *)
(* in a lane that it fills to exactly the board's width, or in a new lane    *)
(* whose length equals the board's remaining unallocated length, and no      *)
(* template with a dimension equal to the cut's is vended *)
C12_ExactFitsAreNonFits ==
  [][(pc = "generate" /\ gen_cutlist # <<>>) =>
       /\ \A i \in 1..Len(boards) :
            /\ PlacedOnBoard(i) => boards[i].width # NextCut.width
            /\ \A k \in 1..Len(boards[i].stacks) :
                 JoinedLane(i, k) => RipStack_width(boards'[i].stacks[k]) # boards[i].width
            /\ OpenedLane(i) => Remaining(boards[i]) # NextCut.length
       /\ Vended =>
            /\ boards'[Len(boards')].width # NextCut.width
            /\ boards'[Len(boards')].length # NextCut.length]_vars

(* C12 amended: a cut joins a lane only if the lane then stays strictly     *)
(* narrower than the board, and a template is vended only if it is strictly *)
(* wider and strictly longer than the cut; a new lane on an existing board  *)
(* takes a cut as wide as the board and as long as the remaining length     *)
C12_ExactFitsOnlyInNewLanes ==
  [][(pc = "generate" /\ gen_cutlist # <<>>) =>
       /\ \A i \in 1..Len(boards) :
            /\ PlacedOnBoard(i) =>
                 (NextCut.width <= boards[i].width /\ NextCut.length <= boards[i].length)
            /\ \A k \in 1..Len(boards[i].stacks) :
                 JoinedLane(i, k) => RipStack_width(boards'[i].stacks[k]) < boards[i].width
            /\ OpenedLane(i) => Remaining(boards[i]) >= NextCut.length
       /\ Vended =>
            /\ boards'[Len(boards')].width > NextCut.width
            /\ boards'[Len(boards')].length > NextCut.length]_vars

(* the second lane of a board holds a cut as wide as the board and exactly *)
(* as long as what the first lane left *)
C12_Witness ==
  /\ pc = "generate"
  /\ \E i \in 1..Len(boards) :
       /\ Len(boards[i].stacks) = 2
       /\ Len(RipStack_cuts(boards[i].stacks[1])) = 1
       /\ \E c \in Range(RipStack_cuts(boards[i].stacks[2])) :
            /\ RipStack_cuts(boards[i].stacks[2]) = <<c>>
            /\ c.width = boards[i].width
            /\ c.length = boards[i].length - RipStack_length(boards[i].stacks[1])

(* no cutlist entry is wider than any template: the width test of the check *)
WidthCheckPasses ==
  \A c \in 1..Len(model.cutlist) : \A b \in 1..Len(model.boards) :
    model.cutlist[c].width <= model.boards[b].width

(* some cut, as expanded with the spacing, is longer than every template *)
SomeCutLongerThanEveryTemplate ==
  \E c \in 1..Len(model.cutlist) : \A b \in 1..Len(model.boards) :
    model.cutlist[c].length + model.spacing > model.boards[b].length

C14_FailureIsolation ==
  (CheckPassed /\ attempts >= 1) =>
    /\ Len(results) + failures = attempt
    /\ \A i \in 1..Len(results) : Len(SolutionCuts(results[i])) = Len(cutlist)
    /\ pc = "done" =>
         /\ attempt = attempts
         /\ ret = None <=> failures = attempts

(* of two attempts one failed and the other's solution was returned *)
C14_Witness ==
  /\ CheckPassed
  /\ attempts = 2
  /\ failures = 1
  /\ Returned
  /\ ret.solutions # <<>>

(* C15 as claimed: the list compute returns is the same for every order in *)
(* which the attempts could have produced the same successful solutions    *)
C15_RankingIndependentOfTrialOrder ==
  Returned =>
    \A reordered \in Permutations_of(results) :
      RankResults(reordered, result_count) = ret.solutions

(* what a field of a text says: a number that is not above 0, no integer *)
NonPositive(text) == parse_f32(text).ok /\ F32_le(parse_f32(text).value[1], F32(0))

NotAnInteger(text) == text \notin {<<"1">>, <<"0">>, <<"-1">>}

Positive(f) == ~f.nan /\ f.v > 0

(* C16 as claimed: Board::parse fails on a length or width <= 0 and on an    *)
(* empty or missing id; Cut::parse fails on a count < 1 or not an integer,   *)
(* on a length or width <= 0 and on a missing name part; Input::from fails   *)
(* on an empty boards list or cutlist; so an Input that Input::from returns  *)
(* has non-empty boards and cutlist, only positive dimensions and counts >= 1 *)
C16_InputValidation ==
  /\ parsed.fn = "Board::parse" =>
       ((\/ NonPositive(parsed.arg.length)
         \/ NonPositive(parsed.arg.width)
         \/ parsed.arg.id = <<>>
         \/ ~parsed.arg.colon) => ~parsed.result.ok)
  /\ parsed.fn = "Cut::parse" =>
       ((\/ NotAnInteger(parsed.arg.count)
         \/ parsed.arg.count \in {<<"0">>, <<"-1">>}
         \/ NonPositive(parsed.arg.length)
         \/ NonPositive(parsed.arg.width)
         \/ ~parsed.arg.colon) => ~parsed.result.ok)
  /\ parsed.fn = "Input::from" =>
       /\ (parsed.arg.boards.items = <<>> \/ parsed.arg.cutlist.items = <<>>) =>
            ~parsed.result.ok
       /\ parsed.result.ok =>
            LET input == parsed.result.value[1] IN
            /\ input.boards # <<>>
            /\ input.cutlist # <<>>
            /\ \A b \in 1..Len(input.boards) :
                 Positive(input.boards[b].length) /\ Positive(input.boards[b].width)
            /\ \A c \in 1..Len(input.cutlist) :
                 /\ Positive(input.cutlist[c].length)
                 /\ Positive(input.cutlist[c].width)
                 /\ input.cutlist[c].count >= 1

(* C17: whenever accept returns false the board has the same dimensions and *)
(* the same lanes in the same order, each holding the same cuts in the same *)
(* order, as before the call; a lane differs from what it was at most by    *)
(* the emptied CrosscutStack that the rolled-back cut leaves at its end     *)
C17_RefusalLeavesBoardAsItWas ==
  (call.n > 0 /\ ~call.ok) =>
    /\ board.length = call.before.length
    /\ board.width = call.before.width
    /\ board.id = call.before.id
    /\ SameCutsAsBefore
    /\ \A i \in 1..Len(board.stacks) :
         \/ board.stacks[i] = call.before.stacks[i]
         \/ board.stacks[i] = Append(call.before.stacks[i], <<>>)

(* accept appended the cut to a lane that held cuts, overflowed the board's *)
(* length, took the cut out again and returned false *)
C17_Witness ==
  /\ call.n > 0
  /\ ~call.ok
  /\ CallFits
  /\ \E i \in 1..Len(board.stacks) :
       /\ board.stacks[i] = Append(call.before.stacks[i], <<>>)
       /\ RipStack_cuts(call.before.stacks[i]) # <<>>

(* the same board with the same cuts in the same lanes *)
SameCuts(after, before) ==
  /\ after.length = before.length
  /\ after.width = before.width
  /\ after.id = before.id
  /\ Len(after.stacks) = Len(before.stacks)
  /\ \A i \in 1..Len(after.stacks) :
       RipStack_cuts(after.stacks[i]) = RipStack_cuts(before.stacks[i])

(* the existing boards on which accept of the next cut succeeds *)
Accepting == {i \in 1..Len(boards) : Board_accept(boards[i], NextCut).ok}

(* C18: generate takes the cuts from the last element of its list to the   *)
(* first; a cut goes to the lowest-index existing board on which accept    *)
(* succeeds, every other board keeping its cuts; only when accept fails on *)
(* every existing board is a board vended, which then holds that cut and   *)
(* comes after all existing boards; the attempt fails only when no board   *)
(* takes the cut and no template qualifies; boards are never removed or    *)
(* reordered and the list grows by at most one board per cut               *)
C18_AllocationOrder ==
  [][(pc = "generate" /\ gen_cutlist # <<>>) =>
       /\ gen_cutlist' = SubSeq(gen_cutlist, 1, Len(gen_cutlist) - 1)
       /\ IF Accepting # {}
          THEN LET first == CHOOSE i \in Accepting : \A j \in Accepting : i <= j IN
               /\ pc' = "generate"
               /\ Len(boards') = Len(boards)
               /\ PlacedOnBoard(first)
               /\ NextCut \in Range(BoardCutsOf(boards'[first].stacks))
               /\ \A i \in 1..Len(boards) : i # first => SameCuts(boards'[i], boards[i])
          ELSE IF Qualifying # {}
          THEN /\ pc' = "generate"
               /\ Len(boards') = Len(boards) + 1
               /\ \A i \in 1..Len(boards) : SameCuts(boards'[i], boards[i])
               /\ BoardCutsOf(boards'[Len(boards')].stacks) = <<NextCut>>
          ELSE /\ pc' = "loop"
               /\ failures' = failures + 1]_vars

(* the second board was vended for a cut the first refused, and a later cut, *)
(* refused by the first board as well, went to the second                    *)
C18_Witness ==
  /\ pc = "generate"
  /\ Len(boards) = 2
  /\ Len(BoardCutsOf(boards[1].stacks)) = 1
  /\ Len(BoardCutsOf(boards[2].stacks)) = 2

(* the current order of the cut list holds exactly the cuts the entries ask for *)
FullCutList ==
  \A x \in Range(cutlist) \cup RequiredCuts :
    Count(cutlist, x) = UnitsRequired(model.cutlist, x)

(* a generate call works on the whole list in its current order: the cuts *)
(* still to place begin it, the others are on the boards                  *)
RunsOnCutList ==
  /\ gen_cutlist = SubSeq(cutlist, 1, Len(gen_cutlist))
  /\ Len(SolutionCuts(boards)) + Len(gen_cutlist) = Len(cutlist)

Kept ==
  {i \in 1..Len(results) :
     Cardinality({j \in 1..Len(results) :
                    \/ Len(results[j]) < Len(results[i])
                    \/ Len(results[j]) = Len(results[i]) /\ j < i})
       < Min(result_count, Len(results))}

(* C20: compute keeps the min(result_count, successes) successes with the  *)
(* fewest boards, the earlier attempt winning a tie on board count, and    *)
(* returns exactly those, in non-increasing order of score; no success     *)
(* left out has fewer boards than a returned one                           *)
C20_FewestBoardsThenScore ==
  Returned =>
    /\ Cardinality(Kept) = Min(result_count, Len(results))
    /\ Len(ret.solutions) = Cardinality(Kept)
    /\ \A x \in Range(ret.solutions) \cup {results[i] : i \in Kept} :
         Count(ret.solutions, x) = Cardinality({i \in Kept : results[i] = x})
    /\ ScoreDescending(ret.solutions)
    /\ \A i \in 1..Len(results) : \A j \in Kept :
         i \notin Kept => Len(results[i]) >= Len(results[j])

(* two different successes with the same number of boards, one asked for: *)
(* the first attempt's solution is the one returned                       *)
C20_Witness ==
  /\ Returned
  /\ result_count = 1
  /\ Len(results) = 2
  /\ Len(results[1]) = Len(results[2])
  /\ results[1] # results[2]
  /\ ret.solutions = <<results[1]>>

(* the board has a lane, and every lane of it holds a cut *)
NonEmptyLanes(b) ==
  \A i \in 1..Len(b.stacks) : RipStack_cuts(b.stacks[i]) # <<>>

NonEmptyBoards(solution) ==
  \A k \in 1..Len(solution) :
    Len(solution[k].stacks) >= 1 /\ NonEmptyLanes(solution[k])

(* the lanes of the board before are still there, in place, with their cuts *)
LanesKept(after, before) ==
  /\ Len(after.stacks) >= Len(before.stacks)
  /\ \A i \in 1..Len(before.stacks) :
       LET was == RipStack_cuts(before.stacks[i])
           is == RipStack_cuts(after.stacks[i])
       IN Len(is) >= Len(was) /\ SubSeq(is, 1, Len(was)) = was

(* C21: every board generate holds, and every board of a solution it hands *)
(* back or compute returns, has at least one lane, and every lane holds at *)
(* least one cut, whether the accept calls made on the board succeeded,    *)
(* refused or rolled back; a step of generate removes no lane and takes no *)
(* cut out of a lane                                                       *)
C21_NonEmptiness ==
  /\ [](/\ NonEmptyBoards(boards)
        /\ \A r \in 1..Len(results) : NonEmptyBoards(results[r])
        /\ \A r \in 1..Len(ret.solutions) : NonEmptyBoards(ret.solutions[r]))
  /\ [][(pc = "generate" /\ gen_cutlist # <<>>) =>
          /\ Len(boards') >= Len(boards)
          /\ \A i \in 1..Len(boards) : LanesKept(boards'[i], boards[i])]_vars

(* a returned solution with a board one of whose lanes went through a *)
(* rollback and still holds the cuts it held                             *)
C21_Witness ==
  /\ Returned
  /\ \E r \in 1..Len(ret.solutions) : \E k \in 1..Len(ret.solutions[r]) :
       LET b == ret.solutions[r][k] IN
       \E i \in 1..Len(b.stacks) :
         /\ b.stacks[i][Len(b.stacks[i])] = <<>>
         /\ RipStack_cuts(b.stacks[i]) # <<>>

====
